---- MODULE Spec2Model ----
(***************************************************************************)
(* Kramasikshna: the progress-aggregation and gamification engine.         *)
(*                                                                         *)
(* The store (server/storage.ts, DatabaseStorage) is modelled as tables    *)
(* that are sequences indexed by the serial id of the row.  The HTTP       *)
(* handlers of server/routes.ts are the actions.  The progress-log handler *)
(* is split at its store round trips (each `await`), so that two requests  *)
(* can interleave; the other handlers are single steps.                    *)
(*                                                                         *)
(* Time is counted in ticks of half a day: DayTicks ticks are the          *)
(* 1000 * 60 * 60 * 24 milliseconds of the source.                         *)
(***************************************************************************)
EXTENDS Integers, Sequences, FiniteSets, TLC

\* ------------------------------------------------------------------ bounds
MaxChallenges == 2
MaxProgress == 2
NumProcs == 2
MaxBadges == 4
MaxUiStart == 2
MaxUiDuration == 8
MaxAsOf == 20
MaxNotes == 2

Instants == {45, 60}
\* the clock readings of the server answering one request at a time
ServerInstants == {45}
\* the clock readings where requests race: the days 21 and 30 of a challenge
RaceInstants == {42, 60}
\* the handlers of the two requests that race
Racers == {1, 2}
Users == {1, 2}
\* the user ids a request may name; 3 is the id of no user
UserIds == {1, 2, 3}
\* the create-challenge requests tried: who asks, and for how many days
ChallengeInputs == {[userId |-> 1, duration |-> 8], [userId |-> 2, duration |-> 1]}
TaskLists == {<<>>, <<TRUE>>, <<TRUE, FALSE>>}
Statuses == {"completed"}
\* what the log form's hours field holds, in tenths of an hour
FormHours == {25}
\* the log form's values tried where the statistics and the activity feed are read
StatsFormValues ==
    {[status |-> "completed", hoursSpent |-> 25],
     [status |-> "partial", hoursSpent |-> 25]}
\* the log form's values tried where two challenges are logged alike: all
\* done with hours, nothing done without hours
TwinFormValues ==
    {[status |-> "completed", hoursSpent |-> 25],
     [status |-> "no-action", hoursSpent |-> 0]}
\* the create-challenge requests tried there: who asks, for how long, which tasks
StatsChallengeInputs ==
    {[userId |-> 1, duration |-> 8, tasks |-> <<TRUE, TRUE>>],
     [userId |-> 2, duration |-> 1, tasks |-> <<TRUE>>]}
Procs == 1..NumProcs

\* ------------------------------------------------------- program constants
DayTicks == 2
STREAK_7 == 7
STREAK_21 == 21
MILESTONE_30 == 30

\* SQL NULL, JavaScript null and undefined: no value
Null == -1

\* the create-challenge request bodies tried: the duration sent (Null: none or
\* not a number), whether name and category are strings, whether tasks is an
\* array, and the tasks (TRUE: one that insertTaskSchema accepts)
CreateBodies ==
    [userId : Users, duration : {Null, 0, 1}, named : BOOLEAN, hasTasks : BOOLEAN,
     tasks : TaskLists]

BadgeNames == <<"7-Day Streak", "21-Day Streak", "30-Day Milestone", "Challenge Completed">>
CompletedStage == 4

VARIABLES
    now,            \* the server clock, in ticks
    challenges,     \* table challenges: id -> row
    tasks,          \* table tasks
    taskProgress,   \* table task_progress
    badges,         \* table badges
    pc,             \* per request handler: where the progress-log request stands
    req,            \* per request handler: the locals of the request
    resp,           \* per request handler: the response of its last request
    reply,          \* the response of the last single-step request or store call
    ui,             \* the client components' inputs and what they rendered
    userConnections,    \* table user_connections
    sharedNotes         \* table shared_notes

vars == <<now, challenges, tasks, taskProgress, badges, pc, req, resp, reply, ui,
          userConnections, sharedNotes>>
store == <<challenges, tasks, taskProgress, badges>>
social == <<userConnections, sharedNotes>>

Absent == [id |-> 0]
NoReply == [op |-> "none"]
Returned == 1
Threw == 2
NoUi == [startDate |-> 0, duration |-> 0, asOf |-> 0, card |-> 0, page |-> 0,
         cardPct |-> 0, pagePct |-> 0, cardShown |-> FALSE, pageShown |-> FALSE]
NoReq == [kind |-> "none", user |-> 0, cid |-> 0, stage |-> 0, dd |-> 0,
          dur |-> 0, loaded |-> FALSE, prog |-> 0, ins |-> 0, peer |-> 0, conn |-> 0]

\* ---------------------------------------------------------------- the store
\* a lookup that answers with a blank row where the real one answers undefined
getChallengeOrBlank(id) ==
    IF id \in DOMAIN challenges THEN challenges[id]
    ELSE [id |-> id, userId |-> 0, duration |-> 0, startDate |-> 0, endDate |-> 0,
          isCompleted |-> FALSE, createdAt |-> 0]

getChallenge(id) == IF id \in DOMAIN challenges THEN challenges[id] ELSE Absent

getTask(id) == IF id \in DOMAIN tasks THEN tasks[id] ELSE Absent

\* a challenge whose last day is taken for its end date
createChallengeEndingOnLastDay(u, duration, t) ==
    [id |-> Len(challenges) + 1, userId |-> u, duration |-> duration,
     startDate |-> t, endDate |-> t + (duration - 1) * DayTicks,
     isCompleted |-> FALSE, createdAt |-> t]

\* endDate.setDate(startDate.getDate() + duration): calendar days
createChallenge(u, duration, t) ==
    [id |-> Len(challenges) + 1, userId |-> u, duration |-> duration,
     startDate |-> t, endDate |-> t + duration * DayTicks,
     isCompleted |-> FALSE, createdAt |-> t]

createTask(ts, c) == Append(ts, [id |-> Len(ts) + 1, challengeId |-> c])

\* the tasks of a create-challenge request, stored up to the first one that
\* fails insertTaskSchema.parse
RECURSIVE createTasks(_, _, _)
createTasks(ts, c, list) ==
    IF list = <<>> \/ ~Head(list) THEN ts
    ELSE createTasks(createTask(ts, c), c, Tail(list))

AllValid(list) == \A i \in DOMAIN list : list[i]

\* an update that flips the flag where the real one sets it
markChallengeToggled(chs, id) ==
    [i \in DOMAIN chs |->
        IF i = id THEN [chs[i] EXCEPT !.isCompleted = ~chs[i].isCompleted] ELSE chs[i]]

\* an update that has lost its WHERE clause
markEveryChallengeCompleted(chs, id) ==
    [i \in DOMAIN chs |-> [chs[i] EXCEPT !.isCompleted = TRUE]]

\* UPDATE challenges SET is_completed = true WHERE id = :id
markChallengeCompleted(chs, id) ==
    [i \in DOMAIN chs |-> IF i = id THEN [chs[i] EXCEPT !.isCompleted = TRUE] ELSE chs[i]]

\* an update that returns a row only when it changed one
markChallengeCompletedIfOpen(chs, id) ==
    IF id \in DOMAIN chs /\ ~chs[id].isCompleted
      THEN [chs[id] EXCEPT !.isCompleted = TRUE] ELSE Absent

\* what markChallengeCompleted resolves to: the updated row, or undefined
markChallengeCompletedResult(chs, id) ==
    IF id \in DOMAIN chs THEN markChallengeCompleted(chs, id)[id] ELSE Absent

\* x || fallback for a number x that may be missing
OrElse(x, fallback) == IF x = Null \/ x = 0 THEN fallback ELSE x

logTaskProgress(tp, t, body) ==
    Append(tp, [id |-> Len(tp) + 1, taskId |-> t, date |-> body.date,
                status |-> body.status, hoursSpent |-> OrElse(body.hoursSpent, Null)])

\* an existence query that always takes its challenge_id IS NULL branch
existingBadgeNullScope(bs, u, name, c) ==
    \E i \in DOMAIN bs : bs[i].userId = u /\ bs[i].name = name /\ bs[i].challengeId = 0

\* the existence query of createBadgeIfNotExists
existingBadge(bs, u, name, c) ==
    \E i \in DOMAIN bs : bs[i].userId = u /\ bs[i].name = name /\ bs[i].challengeId = c

\* an insert that takes over the row the user has under that name, whatever
\* its challenge
createBadgeUpsertByName(bs, u, name, c, t) ==
    IF \E i \in DOMAIN bs : bs[i].userId = u /\ bs[i].name = name
      THEN [i \in DOMAIN bs |->
              IF bs[i].userId = u /\ bs[i].name = name
                THEN [bs[i] EXCEPT !.challengeId = c, !.earnedAt = t] ELSE bs[i]]
      ELSE Append(bs, [id |-> Len(bs) + 1, userId |-> u, challengeId |-> c,
                       name |-> name, earnedAt |-> t])

\* db.insert(badges).values(...): earnedAt defaults to now()
createBadge(bs, u, name, c, t) ==
    Append(bs, [id |-> Len(bs) + 1, userId |-> u, challengeId |-> c,
                name |-> name, earnedAt |-> t])

\* ------------------------------------------------- connections and notes
getUser(id) == IF id \in Users THEN [id |-> id] ELSE Absent

getTaskProgress(id) == IF id \in DOMAIN taskProgress THEN taskProgress[id] ELSE Absent

\* the connections in which the user is the requester or the recipient
getUserConnections(u) ==
    {userConnections[i] : i \in {j \in DOMAIN userConnections :
        userConnections[j].userId = u \/ userConnections[j].connectedUserId = u}}

\* the rows the query of getUserConnectionByIds matches, in either direction;
\* the method returns the first of them, in no stated order
getUserConnectionByIds(u, w) ==
    {userConnections[i] : i \in {j \in DOMAIN userConnections :
        \/ userConnections[j].userId = u /\ userConnections[j].connectedUserId = w
        \/ userConnections[j].userId = w /\ userConnections[j].connectedUserId = u}}

\* what a caller of getUserConnectionByIds may get
FirstOf(rows) == IF rows = {} THEN {Absent} ELSE rows

createUserConnection(ucs, u, w) ==
    Append(ucs, [id |-> Len(ucs) + 1, userId |-> u, connectedUserId |-> w,
                 status |-> "pending"])

updateUserConnectionStatus(ucs, id, status) ==
    [i \in DOMAIN ucs |-> IF i = id THEN [ucs[i] EXCEPT !.status = status] ELSE ucs[i]]

shareNote(ns, e, u, w) ==
    Append(ns, [id |-> Len(ns) + 1, taskProgressId |-> e, sharedByUserId |-> u,
                sharedWithUserId |-> w])

\* the recipient test that also lets the requester decide
MayDecideEitherSide(connection, u) ==
    connection.connectedUserId = u \/ connection.userId = u

\* !(connection.connectedUserId !== req.user.id)
MayDecide(connection, u) == connection.connectedUserId = u

\* the connection test that is content with any connection, whatever its status
MayShareOverAny(connection) == connection # Absent

\* !(!connection || connection.status !== 'accepted')
MayShareOver(connection) == connection # Absent /\ connection.status = "accepted"

\* ------------------------------------------------------ stats and activity
Indices(seq, Test(_)) == {i \in DOMAIN seq : Test(seq[i])}

getChallengesByUserId(u) == Indices(challenges, LAMBDA c : c.userId = u)

getTasksByChallengeId(c) == Indices(tasks, LAMBDA t : t.challengeId = c)

getTaskProgressByTaskId(t) == Indices(taskProgress, LAMBDA e : e.taskId = t)

getUserBadges(u) == Indices(badges, LAMBDA b : b.userId = u)

UserTasks(u) == UNION {getTasksByChallengeId(c) : c \in getChallengesByUserId(u)}

UserProgress(u) == UNION {getTaskProgressByTaskId(t) : t \in UserTasks(u)}

\* the hours of completed entries only
RECURSIVE SumCompletedMinutes(_)
SumCompletedMinutes(rows) ==
    IF rows = {} THEN 0
    ELSE LET i == CHOOSE x \in rows : TRUE IN
         (IF taskProgress[i].status = "completed"
            THEN OrElse(taskProgress[i].hoursSpent, 0) ELSE 0)
         + SumCompletedMinutes(rows \ {i})

\* reduce((sum, entry) => sum + (entry.hoursSpent || 0) / 60, 0), in sixtieths
RECURSIVE SumMinutes(_)
SumMinutes(rows) ==
    IF rows = {} THEN 0
    ELSE LET i == CHOOSE x \in rows : TRUE IN
         OrElse(taskProgress[i].hoursSpent, 0) + SumMinutes(rows \ {i})

Min(a, b) == IF a <= b THEN a ELSE b

\* the streaks with the status filter of the query left out
calculateStreaksAnyStatus(u) ==
    LET n == Cardinality(UserProgress(u)) IN
    IF n = 0 THEN [currentStreak |-> 0, longestStreak |-> 0]
    ELSE [currentStreak |-> Min((n + 1) \div 2, 14), longestStreak |-> Min(n, 30)]

\* DatabaseStorage.calculateStreaks: n completed entries of the user
calculateStreaks(u) ==
    LET n == Cardinality({i \in UserProgress(u) : taskProgress[i].status = "completed"}) IN
    IF n = 0 THEN [currentStreak |-> 0, longestStreak |-> 0]
    ELSE [currentStreak |-> Min((n + 1) \div 2, 14), longestStreak |-> Min(n, 30)]

\* the statistics with completedTasks counting completed entries
getUserStatsPerEntry(u) ==
    LET streaks == calculateStreaks(u) IN
    [activeChallenges |-> Cardinality({c \in getChallengesByUserId(u) : ~challenges[c].isCompleted}),
     totalTasks |-> Cardinality(UserTasks(u)),
     completedTasks |-> Cardinality({i \in UserProgress(u) : taskProgress[i].status = "completed"}),
     hoursLogged |-> SumMinutes(UserProgress(u)),
     badgesCount |-> Cardinality(getUserBadges(u)),
     longestStreak |-> streaks.longestStreak,
     currentStreak |-> streaks.currentStreak]

\* DatabaseStorage.getUserStats; hoursLogged is in sixtieths of an hour
getUserStats(u) ==
    LET streaks == calculateStreaks(u) IN
    [activeChallenges |-> Cardinality({c \in getChallengesByUserId(u) : ~challenges[c].isCompleted}),
     totalTasks |-> Cardinality(UserTasks(u)),
     completedTasks |-> Cardinality({t \in UserTasks(u) :
            \E i \in getTaskProgressByTaskId(t) : taskProgress[i].status = "completed"}),
     hoursLogged |-> SumMinutes(UserProgress(u)),
     badgesCount |-> Cardinality(getUserBadges(u)),
     longestStreak |-> streaks.longestStreak,
     currentStreak |-> streaks.currentStreak]

\* MemStorage.calculateStreaks: Math.random() decides; the ends of its ranges
MockStreaks ==
    {[currentStreak |-> 1, longestStreak |-> 30],
     [currentStreak |-> 30, longestStreak |-> 89]}

\* MemStorage.getUserStats: completedTasks adds the completed entries of each task
MemGetUserStats(u, streaks) ==
    [activeChallenges |-> Cardinality({c \in getChallengesByUserId(u) : ~challenges[c].isCompleted}),
     totalTasks |-> Cardinality(UserTasks(u)),
     completedTasks |-> Cardinality({i \in UserProgress(u) : taskProgress[i].status = "completed"}),
     hoursLogged |-> SumMinutes(UserProgress(u)),
     badgesCount |-> Cardinality(getUserBadges(u)),
     longestStreak |-> streaks.longestStreak,
     currentStreak |-> streaks.currentStreak]

\* the rows of a table with the given ids, in id order
RECURSIVE Rows(_, _, _)
Rows(seq, ids, from) ==
    IF from > Len(seq) THEN <<>>
    ELSE IF from \in ids THEN <<seq[from]>> \o Rows(seq, ids, from + 1)
    ELSE Rows(seq, ids, from + 1)

Item(type, c, t, b, date, status, minutes) ==
    [type |-> type, challengeId |-> c, taskId |-> t, badgeId |-> b, date |-> date,
     status |-> status, hoursSpent |-> minutes]

\* the challenge's activities without the one for its completion
ChallengeItemsCreatedOnly(c) ==
    <<Item("created", c.id, 0, 0, c.createdAt, "", Null)>>

\* the challenge's activities with the completion dated at the time of the read
ChallengeItemsDatedNow(c) ==
    <<Item("created", c.id, 0, 0, c.createdAt, "", Null)>>
    \o (IF c.isCompleted THEN <<Item("completed", c.id, 0, 0, now, "", Null)>> ELSE <<>>)

\* the activities of getUserActivity in the order it pushes them
ChallengeItems(c) ==
    <<Item("created", c.id, 0, 0, c.createdAt, "", Null)>>
    \o (IF c.isCompleted
          THEN <<Item("completed", c.id, 0, 0,
                      IF c.endDate # Null THEN c.endDate ELSE now, "", Null)>>
          ELSE <<>>)

ProgressItem(e) ==
    Item(IF e.status = "missed" THEN "missed" ELSE "completed",
         tasks[e.taskId].challengeId, e.taskId, 0, e.date, e.status,
         OrElse(e.hoursSpent, Null))

BadgeItem(b) == Item("badge", b.challengeId, 0, b.id, b.earnedAt, "", Null)

RECURSIVE Flatten(_)
Flatten(seqs) == IF seqs = <<>> THEN <<>> ELSE Head(seqs) \o Flatten(Tail(seqs))

FlatMap(seq, F(_)) == Flatten([i \in DOMAIN seq |-> F(seq[i])])

\* the user's progress entries, by challenge, then task, then date ascending
RECURSIVE SortByDate(_)
InsertByDate(sorted, e) ==
    LET k == Cardinality({i \in DOMAIN sorted : sorted[i].date <= e.date}) IN
    SubSeq(sorted, 1, k) \o <<e>> \o SubSeq(sorted, k + 1, Len(sorted))
SortByDate(seq) ==
    IF seq = <<>> THEN <<>>
    ELSE InsertByDate(SortByDate(SubSeq(seq, 1, Len(seq) - 1)), seq[Len(seq)])

TaskEntries(t) == SortByDate(Rows(taskProgress, getTaskProgressByTaskId(t.id), 1))

ChallengeEntries(c) ==
    FlatMap(Rows(tasks, getTasksByChallengeId(c.id), 1), TaskEntries)

\* an insertion that keeps the order of arrival
InsertLast(sorted, x) == Append(sorted, x)

\* activities.sort((a, b) => b.date - a.date): stable, newest first
RECURSIVE SortNewestFirst(_)
InsertNewestFirst(sorted, x) ==
    LET k == Cardinality({i \in DOMAIN sorted : sorted[i].date >= x.date}) IN
    SubSeq(sorted, 1, k) \o <<x>> \o SubSeq(sorted, k + 1, Len(sorted))
SortNewestFirst(seq) ==
    IF seq = <<>> THEN <<>>
    ELSE InsertNewestFirst(SortNewestFirst(SubSeq(seq, 1, Len(seq) - 1)), seq[Len(seq)])

WithIds(seq) == [i \in DOMAIN seq |-> [id |-> i, item |-> seq[i]]]

Dated(seq) == [i \in DOMAIN seq |-> [id |-> seq[i].id, date |-> seq[i].item.date, item |-> seq[i].item]]

\* DatabaseStorage.getUserActivity
getUserActivity(u) ==
    LET mine == Rows(challenges, getChallengesByUserId(u), 1)
        pushed == FlatMap(mine, ChallengeItems)
                  \o FlatMap(mine, LAMBDA c : [i \in DOMAIN ChallengeEntries(c) |->
                                                   ProgressItem(ChallengeEntries(c)[i])])
                  \o [i \in DOMAIN Rows(badges, getUserBadges(u), 1) |->
                         BadgeItem(Rows(badges, getUserBadges(u), 1)[i])]
    IN SortNewestFirst(Dated(WithIds(pushed)))

\* ------------------------------------------------------- checkAndAwardBadges
daysDiff(today, startDate) == (today - startDate) \div DayTicks

\* the awards' conditions with the completion test one day late
StageAppliesDayLate(i, dd, dur) ==
    CASE i = 1 -> dd >= STREAK_7
      [] i = 2 -> dd >= STREAK_21
      [] i = 3 -> dd >= MILESTONE_30
      [] OTHER -> dur <= dd

\* the awards' conditions with the thresholds compared strictly
StageAppliesStrict(i, dd, dur) ==
    CASE i = 1 -> dd > STREAK_7
      [] i = 2 -> dd > STREAK_21
      [] i = 3 -> dd > MILESTONE_30
      [] OTHER -> dur <= dd + 1

\* the awards' conditions asking in addition for a completed entry in the log
StageAppliesWhenCompletedLogged(i, dd, dur) ==
    /\ \E e \in DOMAIN taskProgress : taskProgress[e].status = "completed"
    /\ CASE i = 1 -> dd >= STREAK_7
         [] i = 2 -> dd >= STREAK_21
         [] i = 3 -> dd >= MILESTONE_30
         [] OTHER -> dur <= dd + 1

\* the awards' conditions as an else-if ladder: only the highest threshold reached
StageAppliesHighestOnly(i, dd, dur) ==
    CASE i = 1 -> dd >= STREAK_7 /\ dd < STREAK_21
      [] i = 2 -> dd >= STREAK_21 /\ dd < MILESTONE_30
      [] i = 3 -> dd >= MILESTONE_30
      [] OTHER -> dur <= dd + 1

\* the awards' conditions with the completion left unguarded
StageAppliesCompletionUnguarded(i, dd, dur) ==
    CASE i = 1 -> dd >= STREAK_7
      [] i = 2 -> dd >= STREAK_21
      [] i = 3 -> dd >= MILESTONE_30
      [] OTHER -> TRUE

\* the condition guarding each award of checkAndAwardBadges, in source order
StageApplies(i, dd, dur) ==
    CASE i = 1 -> dd >= STREAK_7
      [] i = 2 -> dd >= STREAK_21
      [] i = 3 -> dd >= MILESTONE_30
      [] OTHER -> dur <= dd + 1

RECURSIVE NextStage(_, _, _)
NextStage(i, dd, dur) ==
    IF i > CompletedStage THEN i
    ELSE IF StageApplies(i, dd, dur) THEN i
    ELSE NextStage(i + 1, dd, dur)

\* where control goes once the stages before i are done
Goto(p, r, i) ==
    LET j == NextStage(i, r.dd, r.dur) IN
    /\ req' = [req EXCEPT ![p] = [r EXCEPT !.stage = j]]
    /\ pc' = [pc EXCEPT ![p] = IF j > CompletedStage THEN "ret"
                                ELSE IF j = CompletedStage THEN "mark" ELSE "sel"]

AllIdle == \A p \in Procs : pc[p] = "idle"

\* ------------------------------------------------------------------ actions
\* time passes: the clock reads t at the next thing that happens
Tick(t) ==
    /\ now < t
    /\ now' = t
    /\ UNCHANGED <<store, pc, req, resp, reply, ui, social>>

\* insertChallengeSchema.parse({...req.body, userId}): name and category are
\* strings and duration is an integer; no lower limit on duration, no look at tasks
insertChallengeSchema(body) == body.named /\ body.duration # Null

\* req.body.tasks && Array.isArray(req.body.tasks): the tasks the route goes through
RequestTasks(body) == IF body.hasTasks THEN body.tasks ELSE <<>>

\* POST /api/challenges
PostChallenge(p, u, valid, duration, list) ==
    /\ pc[p] = "idle"
    /\ Len(challenges) < MaxChallenges
    /\ IF ~valid
         THEN /\ resp' = [resp EXCEPT ![p] = 400]
              /\ UNCHANGED <<challenges, tasks>>
         ELSE LET ch == createChallenge(u, duration, now) IN
              /\ challenges' = Append(challenges, ch)
              /\ tasks' = createTasks(tasks, ch.id, list)
              /\ resp' = [resp EXCEPT ![p] = IF AllValid(list) THEN 201 ELSE 400]
    /\ pc' = [pc EXCEPT ![p] = "done"]
    /\ req' = [req EXCEPT ![p] = [NoReq EXCEPT !.kind = "postChallenge", !.user = u]]
    /\ UNCHANGED <<now, taskProgress, badges, reply, ui, social>>

\* the ownership test letting through whoever names a challenge that exists
AuthorizedIfFound(challenge, u) == challenge # Absent

\* !(!challenge || challenge.userId !== req.user.id)
Authorized(challenge, u) == challenge # Absent /\ challenge.userId = u

\* POST /api/tasks/:taskId/progress up to and including logTaskProgress
PostProgress(p, u, t, valid, body, fails) ==
    /\ pc[p] = "idle"
    /\ Len(taskProgress) < MaxProgress
    /\ LET task == getTask(t)
           challenge == getChallenge(task.challengeId)
           r == [NoReq EXCEPT !.kind = "route", !.user = u]
           Answer(status) ==
                /\ resp' = [resp EXCEPT ![p] = status]
                /\ req' = [req EXCEPT ![p] = r]
                /\ pc' = [pc EXCEPT ![p] = "done"]
                /\ UNCHANGED taskProgress IN
       IF fails THEN Answer(500)
       ELSE IF task = Absent THEN Answer(404)
       ELSE IF ~Authorized(challenge, u) THEN Answer(403)
       ELSE IF ~valid THEN Answer(400)
       ELSE
            /\ taskProgress' = logTaskProgress(taskProgress, t, body)
            /\ req' = [req EXCEPT ![p] = [r EXCEPT !.cid = task.challengeId,
                                                  !.prog = Len(taskProgress) + 1]]
            /\ pc' = [pc EXCEPT ![p] = "check"]
            /\ UNCHANGED resp
    /\ UNCHANGED <<now, challenges, tasks, badges, reply, ui, social>>

\* checkAndAwardBadges: getChallenge, getTasksByChallengeId, daysDiff
CheckLoad(p) ==
    /\ pc[p] = "check"
    /\ LET challenge == getChallenge(req[p].cid) IN
       IF challenge = Absent
         THEN /\ pc' = [pc EXCEPT ![p] = "ret"]
              /\ UNCHANGED req
         ELSE Goto(p, [req[p] EXCEPT !.loaded = TRUE,
                                     !.dd = daysDiff(now, challenge.startDate),
                                     !.dur = challenge.duration], 1)
    /\ UNCHANGED <<now, store, resp, reply, ui, social>>

\* createBadgeIfNotExists: the existence query
Sel(p) ==
    /\ pc[p] = "sel"
    /\ IF existingBadge(badges, req[p].user, BadgeNames[req[p].stage], req[p].cid)
         THEN Goto(p, req[p], req[p].stage + 1)
         ELSE /\ pc' = [pc EXCEPT ![p] = "ins"]
              /\ UNCHANGED req
    /\ UNCHANGED <<now, store, resp, reply, ui, social>>

\* createBadgeIfNotExists: createBadge
Ins(p) ==
    /\ pc[p] = "ins"
    /\ badges' = createBadge(badges, req[p].user, BadgeNames[req[p].stage], req[p].cid, now)
    /\ Goto(p, [req[p] EXCEPT !.ins = @ + 1], req[p].stage + 1)
    /\ UNCHANGED <<now, challenges, tasks, taskProgress, resp, reply, ui, social>>

\* storage.markChallengeCompleted(challengeId) inside checkAndAwardBadges
Mark(p) ==
    /\ pc[p] = "mark"
    /\ challenges' = markChallengeCompleted(challenges, req[p].cid)
    /\ pc' = [pc EXCEPT ![p] = "sel"]
    /\ UNCHANGED <<now, tasks, taskProgress, badges, req, resp, reply, ui, social>>

\* checkAndAwardBadges has returned: res.status(201).json(progress); a direct
\* caller of checkAndAwardBadges resumes (Returned)
Respond(p) ==
    /\ pc[p] = "ret"
    /\ resp' = [resp EXCEPT ![p] = IF req[p].kind = "route" THEN 201 ELSE Returned]
    /\ pc' = [pc EXCEPT ![p] = "done"]
    /\ UNCHANGED <<now, store, req, reply, ui, social>>

\* a store call of the badge check rejects: the route's catch answers 500; a
\* direct caller sees the rejection (Threw)
StoreThrows(p) ==
    /\ pc[p] \in {"check", "sel", "ins", "mark"}
    /\ resp' = [resp EXCEPT ![p] = IF req[p].kind = "route" THEN 500 ELSE Threw]
    /\ pc' = [pc EXCEPT ![p] = "done"]
    /\ UNCHANGED <<now, store, req, reply, ui, social>>

\* what the connection and note routes have in common: one step, one answer
Answered(p, kind, u, e, w, c, status) ==
    /\ pc[p] = "idle"
    /\ pc' = [pc EXCEPT ![p] = "done"]
    /\ req' = [req EXCEPT ![p] = [NoReq EXCEPT !.kind = kind, !.user = u, !.prog = e,
                                                !.peer = w, !.conn = c]]
    /\ resp' = [resp EXCEPT ![p] = status]
    /\ UNCHANGED <<now, store, reply, ui>>

\* POST /api/user/connections
PostConnection(p, u, valid, w, fails) ==
    LET Answer(status) == Answered(p, "postConnection", u, 0, IF valid THEN w ELSE 0, 0, status) IN
    IF ~valid THEN Answer(400) /\ UNCHANGED social
    ELSE IF fails THEN Answer(500) /\ UNCHANGED social
    ELSE IF getUserConnectionByIds(u, w) # {} THEN Answer(400) /\ UNCHANGED social
    ELSE IF getUser(w) = Absent THEN Answer(404) /\ UNCHANGED social
    ELSE /\ userConnections' = createUserConnection(userConnections, u, w)
         /\ Answer(201)
         /\ UNCHANGED sharedNotes

\* PATCH /api/user/connections/:id
PatchConnection(p, u, id, valid, status, fails) ==
    LET Answer(code) == Answered(p, "patchConnection", u, 0, 0, id, code)
        found == {connection \in getUserConnections(u) : connection.id = id} IN
    IF ~valid THEN Answer(400) /\ UNCHANGED social
    ELSE IF fails THEN Answer(500) /\ UNCHANGED social
    ELSE IF found = {} THEN Answer(404) /\ UNCHANGED social
    ELSE IF ~MayDecide(userConnections[id], u) THEN Answer(403) /\ UNCHANGED social
    ELSE /\ userConnections' = updateUserConnectionStatus(userConnections, id, status)
         /\ Answer(200)
         /\ UNCHANGED sharedNotes

\* POST /api/user/share-note
ShareNote(p, u, valid, e, w, fails) ==
    LET Answer(status) ==
            Answered(p, "shareNote", u, IF valid THEN e ELSE 0, IF valid THEN w ELSE 0, 0, status)
        progress == getTaskProgress(e)
        task == IF progress = Absent THEN Absent ELSE getTask(progress.taskId)
        challenge == IF task = Absent THEN Absent ELSE getChallenge(task.challengeId) IN
    /\ Len(sharedNotes) < MaxNotes
    /\ IF ~valid THEN Answer(400) /\ UNCHANGED social
       ELSE IF fails THEN Answer(500) /\ UNCHANGED social
       ELSE IF progress = Absent \/ task = Absent THEN Answer(404) /\ UNCHANGED social
       ELSE IF ~Authorized(challenge, u) THEN Answer(403) /\ UNCHANGED social
       ELSE \E connection \in FirstOf(getUserConnectionByIds(u, w)) :
               IF ~MayShareOver(connection) THEN Answer(403) /\ UNCHANGED social
               ELSE /\ sharedNotes' = shareNote(sharedNotes, e, u, w)
                    /\ Answer(201)
                    /\ UNCHANGED userConnections

\* GET /api/user/stats
GetStats(p, u) ==
    /\ pc[p] = "idle"
    /\ pc' = [pc EXCEPT ![p] = "done"]
    /\ req' = [req EXCEPT ![p] = [NoReq EXCEPT !.kind = "getStats", !.user = u]]
    /\ resp' = [resp EXCEPT ![p] = 200]
    /\ reply' = [op |-> "getStats", val |-> getUserStats(u)]
    /\ UNCHANGED <<now, store, ui, social>>

\* GET /api/user/stats answered by the in-memory storage
GetStatsMem(p, u, streaks) ==
    /\ pc[p] = "idle"
    /\ pc' = [pc EXCEPT ![p] = "done"]
    /\ req' = [req EXCEPT ![p] = [NoReq EXCEPT !.kind = "getStatsMem", !.user = u]]
    /\ resp' = [resp EXCEPT ![p] = 200]
    /\ reply' = [op |-> "getStatsMem", val |-> MemGetUserStats(u, streaks)]
    /\ UNCHANGED <<now, store, ui, social>>

\* GET /api/user/activity
GetActivity(p, u) ==
    /\ pc[p] = "idle"
    /\ pc' = [pc EXCEPT ![p] = "done"]
    /\ req' = [req EXCEPT ![p] = [NoReq EXCEPT !.kind = "getActivity", !.user = u]]
    /\ resp' = [resp EXCEPT ![p] = 200]
    /\ reply' = [op |-> "getActivity", val |-> getUserActivity(u)]
    /\ UNCHANGED <<now, store, ui, social>>

\* GET /api/challenges/:id
GetChallenge(p, u, id) ==
    /\ pc[p] = "idle"
    /\ pc' = [pc EXCEPT ![p] = "done"]
    /\ req' = [req EXCEPT ![p] = [NoReq EXCEPT !.kind = "getChallenge", !.user = u, !.cid = id]]
    /\ LET challenge == getChallenge(id) IN
       IF challenge = Absent THEN
            /\ resp' = [resp EXCEPT ![p] = 404]
            /\ reply' = NoReply
       ELSE IF challenge.userId # u THEN
            /\ resp' = [resp EXCEPT ![p] = 403]
            /\ reply' = NoReply
       ELSE
            /\ resp' = [resp EXCEPT ![p] = 200]
            /\ reply' = [op |-> "getChallenge", val |-> challenge,
                         tasks |-> getTasksByChallengeId(id)]
    /\ UNCHANGED <<now, store, ui, social>>

\* checkAndAwardBadges(userId, challengeId) called on its own
CallCheck(p, u, c) ==
    /\ pc[p] = "idle"
    /\ Len(badges) < MaxBadges
    /\ pc' = [pc EXCEPT ![p] = "check"]
    /\ req' = [req EXCEPT ![p] = [NoReq EXCEPT !.kind = "direct", !.user = u, !.cid = c]]
    /\ UNCHANGED <<now, store, resp, reply, ui, social>>

\* storage.markChallengeCompleted(id) called on its own
CallMark(p, id) ==
    /\ pc[p] = "idle"
    /\ challenges' = markChallengeCompleted(challenges, id)
    /\ reply' = [op |-> "markChallengeCompleted", val |-> markChallengeCompletedResult(challenges, id)]
    /\ pc' = [pc EXCEPT ![p] = "done"]
    /\ req' = [req EXCEPT ![p] = [NoReq EXCEPT !.kind = "mark", !.cid = id]]
    /\ resp' = [resp EXCEPT ![p] = Returned]
    /\ UNCHANGED <<now, tasks, taskProgress, badges, ui, social>>

\* the client has the response; the handler's locals are gone
Close(p) ==
    /\ pc[p] = "done"
    /\ pc' = [pc EXCEPT ![p] = "idle"]
    /\ req' = [req EXCEPT ![p] = NoReq]
    /\ resp' = [resp EXCEPT ![p] = 0]
    /\ reply' = NoReply
    /\ UNCHANGED <<now, store, ui, social>>

\* ------------------------------------------------------------ the client
\* daysElapsed without Math.min
CardDaysElapsedUnclamped(startDate, duration, today) ==
    (today - startDate) \div DayTicks + 1

\* ChallengeCard: daysElapsed
CardDaysElapsed(startDate, duration, today) ==
    Min((today - startDate) \div DayTicks + 1, duration)

\* ChallengePage: daysElapsed
PageDaysElapsed(startDate, totalDays, today) ==
    Min((today - startDate) \div DayTicks + 1, totalDays)

\* Math.round(x) for x = num / den >= 0: the nearest integer, halves going up
Round(num, den) == (2 * num + den) \div (2 * den)

\* the percentage truncated where the source rounds
CardProgressTruncated(daysElapsed, duration) == (daysElapsed * 100) \div duration

\* ChallengeCard: progressPercentage
CardProgressPercentage(daysElapsed, duration) == Round(daysElapsed * 100, duration)

\* ChallengePage: progressPercentage
PageProgressPercentage(daysElapsed, totalDays) ==
    Min(Round(daysElapsed * 100, totalDays), 100)

RenderCard ==
    /\ ui' = [ui EXCEPT !.card = CardDaysElapsed(ui.startDate, ui.duration, ui.asOf),
                        !.cardPct = CardProgressPercentage(
                            CardDaysElapsed(ui.startDate, ui.duration, ui.asOf), ui.duration),
                        !.cardShown = TRUE]
    /\ UNCHANGED <<now, store, pc, req, resp, reply, social>>

RenderPage ==
    /\ ui' = [ui EXCEPT !.page = PageDaysElapsed(ui.startDate, ui.duration, ui.asOf),
                        !.pagePct = PageProgressPercentage(
                            PageDaysElapsed(ui.startDate, ui.duration, ui.asOf), ui.duration),
                        !.pageShown = TRUE]
    /\ UNCHANGED <<now, store, pc, req, resp, reply, social>>

\* the client's clock moves on; what was rendered is stale
UiTick ==
    /\ ui.asOf < MaxAsOf
    /\ ui' = [ui EXCEPT !.asOf = @ + 1, !.cardShown = FALSE, !.pageShown = FALSE,
                        !.card = 0, !.page = 0, !.cardPct = 0, !.pagePct = 0]
    /\ UNCHANGED <<now, store, pc, req, resp, reply, social>>

\* a request in flight moves on, the store answering every call
Proceed(p) ==
    \/ CheckLoad(p)
    \/ Sel(p)
    \/ Ins(p)
    \/ Mark(p)
    \/ Respond(p)
    \/ Close(p)

ProcStep(p) ==
    \/ Proceed(p)
    \/ StoreThrows(p)

\* LogProgressModal.onSubmit: the request body made of the form's values
onSubmit(values) ==
    [date |-> now, status |-> values.status, hoursSpent |-> (values.hoursSpent * 60) \div 10]

FormValues == [status : Statuses, hoursSpent : FormHours]

Bodies == {onSubmit(values) : values \in FormValues}

StatsBodies == {onSubmit(values) : values \in StatsFormValues}

TwinBodies == {onSubmit(values) : values \in TwinFormValues}

\* ---------------------------------------------------------- specifications
Init ==
    /\ now = 0
    /\ challenges = <<>>
    /\ tasks = <<>>
    /\ taskProgress = <<>>
    /\ badges = <<>>
    /\ pc = [p \in Procs |-> "idle"]
    /\ req = [p \in Procs |-> NoReq]
    /\ resp = [p \in Procs |-> 0]
    /\ reply = NoReply
    /\ ui = NoUi
    /\ userConnections = <<>>
    /\ sharedNotes = <<>>

Read(p) ==
    \/ \E u \in Users : GetStats(p, u)
    \/ \E u \in Users : GetActivity(p, u)
    \/ \E u \in Users, id \in 1..(Len(challenges) + 1) : GetChallenge(p, u, id)

\* the server answering one request at a time, the clock moving between requests
Next ==
    \/ AllIdle /\ \E t \in ServerInstants : Tick(t)
    \/ \E in \in ChallengeInputs, valid \in BOOLEAN, list \in TaskLists :
          PostChallenge(1, in.userId, valid, in.duration, list)
    \/ \E u \in Users, t \in 1..(Len(tasks) + 1), valid \in BOOLEAN, body \in Bodies,
          fails \in BOOLEAN :
          PostProgress(1, u, t, valid, body, fails)
    \/ ProcStep(1)
    \/ Read(1)

Spec == Init /\ [][Next]_vars

\* the core's operations called directly, one at a time, on a store that answers
NextCore ==
    \/ AllIdle /\ \E t \in Instants : Tick(t)
    \/ \E in \in ChallengeInputs : PostChallenge(1, in.userId, TRUE, in.duration, <<TRUE>>)
    \/ \E u \in Users, c \in 1..(Len(challenges) + 1) : CallCheck(1, u, c)
    \/ \E id \in 1..(Len(challenges) + 1) : CallMark(1, id)
    \/ Proceed(1)

SpecCore == Init /\ [][NextCore]_vars

\* progress-log requests of one user running concurrently, the clock moving freely
NextConc ==
    \/ \E t \in Instants : Tick(t)
    \/ \E p \in Procs : PostChallenge(p, 1, TRUE, 8, <<TRUE>>)
    \/ \E p \in Procs, t \in DOMAIN tasks, body \in Bodies :
          PostProgress(p, 1, t, TRUE, body, FALSE)
    \/ \E p \in Procs : ProcStep(p)

SpecConc == Init /\ [][NextConc]_vars

\* one request at a time with the log form's statuses and hours: challenges
\* are created before the clock moves, progress is logged and the statistics
\* and the activity feed are read at any point, and the clock moves also while
\* a response is held
\* the statistics of user u have been computed and the response is held
StatsRead(p) == pc[p] = "done" /\ req[p].kind = "getStats"

\* the activity feed of user u has been computed and the response is held
ActivityRead(p) == pc[p] = "done" /\ req[p].kind = "getActivity"

Owner(t) == challenges[tasks[t].challengeId].userId

NextStats ==
    \/ (pc[1] = "idle" \/ StatsRead(1) \/ ActivityRead(1)) /\ \E t \in ServerInstants : Tick(t)
    \/ now = 0 /\ \E in \in StatsChallengeInputs :
          PostChallenge(1, in.userId, TRUE, in.duration, in.tasks)
    \/ \E t \in DOMAIN tasks, body \in StatsBodies :
          PostProgress(1, Owner(t), t, TRUE, body, FALSE)
    \/ Proceed(1)
    \/ \E u \in Users : GetStats(1, u)
    \/ \E u \in Users : GetActivity(1, u)

SpecStats == Init /\ [][NextStats]_vars

\* create-challenge requests with bodies of every shape, one at a time
NextCreate ==
    \/ \E body \in CreateBodies :
          PostChallenge(1, body.userId, insertChallengeSchema(body), body.duration,
                        RequestTasks(body))
    \/ Close(1)

SpecCreate == Init /\ [][NextCreate]_vars

\* progress-log requests on the one task of one 8-day challenge running
\* concurrently, the clock passing the days 21 and 30 at any point
NextRace ==
    \/ \E t \in RaceInstants : Tick(t)
    \/ challenges = <<>> /\ PostChallenge(1, 1, TRUE, 8, <<TRUE>>)
    \/ \E p \in Racers, body \in Bodies : PostProgress(p, 1, 1, TRUE, body, FALSE)
    \/ \E p \in Racers : ProcStep(p)

SpecRace == Init /\ [][NextRace]_vars

\* challenges of the same duration created at the same time by different
\* users, each with one task; progress is logged on them one request at a time
\* with either of the form's contents
NextTwin ==
    \/ AllIdle /\ \E t \in ServerInstants : Tick(t)
    \/ now = 0 /\ \E u \in Users :
          getChallengesByUserId(u) = {} /\ PostChallenge(1, u, TRUE, 8, <<TRUE>>)
    \/ \E t \in DOMAIN tasks, body \in TwinBodies :
          PostProgress(1, Owner(t), t, TRUE, body, FALSE)
    \/ Proceed(1)

SpecTwin == Init /\ [][NextTwin]_vars

\* the statistics of either storage class read over the same rows, one request
\* at a time
NextMem ==
    \/ \E in \in StatsChallengeInputs :
          PostChallenge(1, in.userId, TRUE, in.duration, in.tasks)
    \/ \E t \in DOMAIN tasks, body \in StatsBodies :
          PostProgress(1, Owner(t), t, TRUE, body, FALSE)
    \/ Proceed(1)
    \/ \E u \in Users : GetStats(1, u)
    \/ \E u \in Users, streaks \in MockStreaks : GetStatsMem(1, u, streaks)

SpecMem == Init /\ [][NextMem]_vars

\* users with one challenge each log progress once, ask each other for a
\* connection, answer it and share their notes, one request at a time
NextShare ==
    \/ \E in \in ChallengeInputs :
          /\ getChallengesByUserId(in.userId) = {}
          /\ PostChallenge(1, in.userId, TRUE, in.duration, <<TRUE>>)
    \/ \E t \in DOMAIN tasks, body \in Bodies :
          getTaskProgressByTaskId(t) = {} /\ PostProgress(1, Owner(t), t, TRUE, body, FALSE)
    \/ Proceed(1)
    \/ \E u \in Users, valid \in BOOLEAN, fails \in BOOLEAN :
          \E w \in UserIds \ {u} : PostConnection(1, u, valid, w, fails)
    \/ \E u \in Users, id \in 1..(Len(userConnections) + 1), valid \in BOOLEAN,
          status \in {"accepted", "rejected"}, fails \in BOOLEAN :
          PatchConnection(1, u, id, valid, status, fails)
    \/ \E u \in Users, valid \in BOOLEAN, e \in 1..(Len(taskProgress) + 1), w \in UserIds,
          fails \in BOOLEAN :
          ShareNote(1, u, valid, e, w, fails)

SpecShare == Init /\ [][NextShare]_vars

\* the client components rendering one challenge as its clock moves
InitUI ==
    /\ Init!1 /\ Init!2 /\ Init!3 /\ Init!4 /\ Init!5 /\ Init!6 /\ Init!7 /\ Init!8 /\ Init!9
    /\ Init!11 /\ Init!12
    /\ \E s \in 0..MaxUiStart, d \in 1..MaxUiDuration, a \in 0..MaxAsOf :
          ui = [NoUi EXCEPT !.startDate = s, !.duration = d, !.asOf = a]

NextUI ==
    \/ RenderCard
    \/ RenderPage
    \/ UiTick

SpecUI == InitUI /\ [][NextUI]_vars

\* ------------------------------------------------------------------ claims
BadgeCount(u, name, c) ==
    Cardinality({i \in DOMAIN badges :
        badges[i].userId = u /\ badges[i].name = name /\ badges[i].challengeId = c})

HasBadge(u, name, c) == BadgeCount(u, name, c) >= 1

\* the badge check of p is between its first store call and its return
InCall(p) == pc[p] \in {"check", "sel", "ins", "mark"}

\* the badge check of p has run to its end on a challenge that exists
Finished(p) == pc[p] = "ret" /\ req[p].cid \in DOMAIN challenges

\* floor((now - startDate) / 1 day) of challenge c
DaysSince(c) == (now - challenges[c].startDate) \div DayTicks

Due(c) == challenges[c].duration <= DaysSince(c) + 1

NewBadges == DOMAIN badges' \ DOMAIN badges

\* C1: calls of checkAndAwardBadges made one after another leave exactly one
\* badge for every (user, name, challenge) that has been awarded, and an
\* award-if-absent that finds its badge inserts no row: every row inserted is
\* the first of its triple.
OnePerAwardedPair ==
    \A i \in DOMAIN badges :
        BadgeCount(badges[i].userId, badges[i].name, badges[i].challengeId) = 1

RepeatInsertsNothing ==
    /\ \A p \in Procs :
          (pc[p] = "sel" /\ HasBadge(req[p].user, BadgeNames[req[p].stage], req[p].cid))
              => (pc'[p] # "ins" /\ badges' = badges)
    /\ \A i \in NewBadges :
          BadgeCount(badges'[i].userId, badges'[i].name, badges'[i].challengeId) = 0

IdempotentAward == []OnePerAwardedPair /\ [][RepeatInsertsNothing]_vars

\* a call on a challenge seven days old or more has returned having inserted
\* nothing: its badge was there from an earlier call
RepeatedCallReturned ==
    \E p \in Procs :
        /\ Finished(p)
        /\ req[p].kind = "direct"
        /\ req[p].ins = 0
        /\ DaysSince(req[p].cid) >= 7
        /\ BadgeCount(req[p].user, "7-Day Streak", req[p].cid) = 1

\* C2: in every reachable state no two badge rows have the same
\* (userId, name, challengeId), also when progress-log requests of one user on
\* one challenge interleave.
AtMostOneBadgePerTriple ==
    \A i, j \in DOMAIN badges :
        (/\ badges[i].userId = badges[j].userId
         /\ badges[i].name = badges[j].name
         /\ badges[i].challengeId = badges[j].challengeId) => i = j

\* C3: a challenge that is completed is completed in the next state, whatever
\* the step.
CompletionMonotone ==
    [][\A c \in DOMAIN challenges :
          challenges[c].isCompleted
              => (c \in DOMAIN challenges' /\ challenges'[c].isCompleted)]_vars

\* markChallengeCompleted has just run on a challenge an earlier request completed
CompletedMarkedAgain ==
    \E p \in Procs :
        /\ pc[p] = "sel"
        /\ req[p].stage = CompletedStage
        /\ req[p].kind = "route"
        /\ challenges[req[p].cid].isCompleted
        /\ \E i \in DOMAIN badges :
              /\ badges[i].name = "Challenge Completed"
              /\ badges[i].challengeId = req[p].cid

\* C4: markChallengeCompleted on a completed challenge changes no table and
\* returns that challenge's row, which is completed; with an id no challenge has
\* it returns undefined and changes no table.
MarkIdempotent ==
    [][\A p \in Procs :
          (pc[p] = "idle" /\ pc'[p] = "done" /\ req'[p].kind = "mark") =>
              LET id == req'[p].cid IN
              /\ (id \notin DOMAIN challenges)
                    => (reply'.val = Absent /\ UNCHANGED store)
              /\ (id \in DOMAIN challenges /\ challenges[id].isCompleted)
                    => (/\ UNCHANGED store
                        /\ reply'.val = challenges[id]
                        /\ reply'.val.isCompleted)]_vars

\* markChallengeCompleted has returned the row of a challenge that a badge check
\* had completed before
MarkedTwice ==
    \E p \in Procs :
        /\ pc[p] = "done"
        /\ req[p].kind = "mark"
        /\ reply.op = "markChallengeCompleted"
        /\ reply.val # Absent
        /\ reply.val.isCompleted
        /\ \E i \in DOMAIN badges :
              badges[i].name = "Challenge Completed" /\ badges[i].challengeId = req[p].cid

\* C5: when checkAndAwardBadges has run to its end on a challenge with
\* duration <= daysDiff + 1, the challenge is completed and the user has a
\* "Challenge Completed" badge for it; while it runs on a challenge with
\* duration > daysDiff + 1, isCompleted keeps its value and no
\* "Challenge Completed" badge is inserted.
CompletedWhenDue ==
    \A p \in Procs :
        (Finished(p) /\ Due(req[p].cid)) =>
            /\ challenges[req[p].cid].isCompleted
            /\ HasBadge(req[p].user, "Challenge Completed", req[p].cid)

UntouchedWhenNotDue ==
    \A p \in Procs :
        (InCall(p) /\ req[p].cid \in DOMAIN challenges /\ ~Due(req[p].cid)) =>
            /\ challenges'[req[p].cid].isCompleted = challenges[req[p].cid].isCompleted
            /\ \A i \in NewBadges : badges'[i].name # "Challenge Completed"

AutomaticCompletion == []CompletedWhenDue /\ [][UntouchedWhenNotDue]_vars

\* a call has completed a challenge on the last day of its duration
CompletedOnLastDay ==
    \E p \in Procs :
        /\ Finished(p)
        /\ challenges[req[p].cid].duration = DaysSince(req[p].cid) + 1
        /\ req[p].ins >= 1
        /\ challenges[req[p].cid].isCompleted
        /\ HasBadge(req[p].user, "Challenge Completed", req[p].cid)

\* C6: when checkAndAwardBadges has run to its end on a challenge, the user has
\* the badge of every threshold (7, 21, 30 days) that daysDiff has reached; the
\* call inserts no badge of a threshold greater than daysDiff.
Thresholds ==
    {[days |-> 7, name |-> "7-Day Streak"],
     [days |-> 21, name |-> "21-Day Streak"],
     [days |-> 30, name |-> "30-Day Milestone"]}

ReachedThresholdsAwarded ==
    \A p \in Procs :
        Finished(p) =>
            \A t \in Thresholds :
                DaysSince(req[p].cid) >= t.days => HasBadge(req[p].user, t.name, req[p].cid)

NoThresholdAhead ==
    \A p \in Procs :
        (InCall(p) /\ req[p].cid \in DOMAIN challenges) =>
            \A i \in NewBadges, t \in Thresholds :
                badges'[i].name = t.name => t.days <= DaysSince(req[p].cid)

ThresholdBadges == []ReachedThresholdsAwarded /\ [][NoThresholdAhead]_vars

\* a call between day 21 and day 30 has awarded the first two badges only
TwoOfThreeAwarded ==
    \E p \in Procs :
        /\ Finished(p)
        /\ DaysSince(req[p].cid) >= 21
        /\ DaysSince(req[p].cid) < 30
        /\ req[p].ins >= 2
        /\ HasBadge(req[p].user, "7-Day Streak", req[p].cid)
        /\ HasBadge(req[p].user, "21-Day Streak", req[p].cid)
        /\ ~HasBadge(req[p].user, "30-Day Milestone", req[p].cid)

\* C7: checkAndAwardBadges called with the id of no challenge goes from its
\* lookup straight to its return, changes no table on the way, and returns
\* without throwing.
MissingChallengeNoOp ==
    [][\A p \in Procs :
          (req[p].kind = "direct" /\ req[p].cid \notin DOMAIN challenges) =>
              /\ UNCHANGED store
              /\ pc[p] = "check" => pc'[p] = "ret"
              /\ pc[p] = "ret" => (pc'[p] = "done" /\ resp'[p] = Returned)
              /\ pc[p] \in {"check", "ret", "done"}]_vars

\* a call with the id of no challenge has returned, the store not being empty
MissingChallengeReturned ==
    \E p \in Procs :
        /\ pc[p] = "done"
        /\ req[p].kind = "direct"
        /\ req[p].cid \notin DOMAIN challenges
        /\ resp[p] = Returned
        /\ challenges # <<>>

\* C8: a progress-log request that has persisted its task_progress row ends
\* with status 201.
PersistedProgressAnswers201 ==
    \A p \in Procs :
        (pc[p] = "done" /\ req[p].kind = "route" /\ req[p].prog \in DOMAIN taskProgress)
            => resp[p] = 201

\* C9: a completed challenge has a progress entry on one of its tasks, and
\* isCompleted of a challenge changes only in a step of a progress-log request
\* whose entry is on a task of that challenge.
CompletedHasProgress ==
    \A c \in DOMAIN challenges :
        challenges[c].isCompleted =>
            \E e \in DOMAIN taskProgress : tasks[taskProgress[e].taskId].challengeId = c

OnlyOwnProgressLogCompletes ==
    \A c \in DOMAIN challenges :
        challenges'[c].isCompleted # challenges[c].isCompleted =>
            \E p \in Procs :
                /\ req[p].kind = "route"
                /\ req[p].prog \in DOMAIN taskProgress
                /\ tasks[taskProgress[req[p].prog].taskId].challengeId = c

CompletionOnlyByProgressLog ==
    []CompletedHasProgress /\ [][OnlyOwnProgressLogCompletes]_vars

\* a challenge is past its end date and still open although time has passed and
\* progress logged on another challenge has completed that one
OverdueStaysOpen ==
    \E c, d \in DOMAIN challenges :
        /\ c # d
        /\ now >= challenges[c].endDate
        /\ ~challenges[c].isCompleted
        /\ challenges[d].isCompleted
        /\ pc[1] = "idle"

\* C10: for a challenge of duration D >= 1 shown at asOf >= startDate, the
\* days elapsed that the card and the page show are
\* min(floor((asOf - startDate) / 1 day) + 1, D), at least 1, at most D, and
\* exactly D from startDate + D days on.
ClampedDays(shown) ==
    LET days == (ui.asOf - ui.startDate) \div DayTicks + 1 IN
    /\ shown = IF days <= ui.duration THEN days ELSE ui.duration
    /\ 1 <= shown
    /\ shown <= ui.duration
    /\ ui.asOf >= ui.startDate + ui.duration * DayTicks => shown = ui.duration

ElapsedDayClamp ==
    (ui.duration >= 1 /\ ui.asOf >= ui.startDate) =>
        /\ ui.cardShown => ClampedDays(ui.card)
        /\ ui.pageShown => ClampedDays(ui.page)

\* both components have rendered a challenge well past its last day
ShownPastLastDay ==
    /\ ui.cardShown
    /\ ui.pageShown
    /\ ui.duration >= 2
    /\ ui.asOf >= ui.startDate + (ui.duration + 1) * DayTicks
    /\ ui.card = ui.duration
    /\ ui.page = ui.duration

\* C11: for a challenge of duration D >= 1 shown at asOf >= startDate, the
\* progress percentage of the card and of the page is the integer nearest to
\* elapsedDays * 100 / D (a half going up), it is at most 100, and the card and
\* the page show the same number.
NearestPercent(pct, days) ==
    /\ 2 * ui.duration * pct <= 200 * days + ui.duration
    /\ 200 * days + ui.duration < 2 * ui.duration * (pct + 1)
    /\ pct <= 100

ProgressPercentageClamped ==
    (ui.duration >= 1 /\ ui.asOf >= ui.startDate) =>
        /\ ui.cardShown => NearestPercent(ui.cardPct, ui.card)
        /\ ui.pageShown => NearestPercent(ui.pagePct, ui.page)
        /\ (ui.cardShown /\ ui.pageShown) => ui.cardPct = ui.pagePct

\* both components show 13 percent for the first day of eight, 12.5 rounded up
HalfPercentRoundedUp ==
    /\ ui.cardShown
    /\ ui.pageShown
    /\ ui.duration = 8
    /\ ui.card = 1
    /\ ui.cardPct = 13
    /\ ui.pagePct = 13

TasksOf(u) == {t \in DOMAIN tasks : challenges[tasks[t].challengeId].userId = u}

EntriesOn(t) == {e \in DOMAIN taskProgress : taskProgress[e].taskId = t}

CompletedEntriesOn(t) == {e \in EntriesOn(t) : taskProgress[e].status = "completed"}

\* C12: getUserStats(u) returns totalTasks = the number of tasks of u's
\* challenges and completedTasks = the number of those tasks with at least one
\* completed entry, a task counting once.
StatsFold ==
    \A p \in Procs :
        StatsRead(p) =>
            /\ reply.val.totalTasks = Cardinality(TasksOf(req[p].user))
            /\ reply.val.completedTasks =
                  Cardinality({t \in TasksOf(req[p].user) : CompletedEntriesOn(t) # {}})

\* of two tasks one has two completed entries, the other none: one completed task
TwiceCompletedCountsOnce ==
    \E p \in Procs :
        /\ StatsRead(p)
        /\ reply.val.totalTasks = 2
        /\ reply.val.completedTasks = 1
        /\ \E t \in TasksOf(req[p].user) : Cardinality(CompletedEntriesOn(t)) = 2

EntriesOf(u) == UNION {EntriesOn(t) : t \in TasksOf(u)}

\* the minutes that entry e holds, none counting as zero
StoredMinutes(e) ==
    IF taskProgress[e].hoursSpent = Null THEN 0 ELSE taskProgress[e].hoursSpent

RECURSIVE TotalMinutes(_)
TotalMinutes(entries) ==
    IF entries = {} THEN 0
    ELSE LET e == CHOOSE x \in entries : TRUE IN
         StoredMinutes(e) + TotalMinutes(entries \ {e})

ReadsChangeNothing ==
    \A p \in Procs :
        (pc[p] = "idle" /\ pc'[p] = "done" /\ req'[p].kind \in {"getStats", "getActivity"})
            => UNCHANGED store

ReadsRepeat ==
    \A p \in Procs :
        /\ StatsRead(p) => reply.val = getUserStats(req[p].user)
        /\ ActivityRead(p) => reply.val = getUserActivity(req[p].user)

CompletedEntriesOf(u) == {e \in EntriesOf(u) : taskProgress[e].status = "completed"}

\* C15: for a user with no completed entry the statistics report
\* currentStreak = 0 and longestStreak = 0.
NoCompletedNoStreak ==
    \A p \in Procs :
        (StatsRead(p) /\ CompletedEntriesOf(req[p].user) = {}) =>
            (reply.val.currentStreak = 0 /\ reply.val.longestStreak = 0)

\* the statistics of a user whose entries are all partial report no streak
OnlyPartialNoStreak ==
    \E p \in Procs :
        /\ StatsRead(p)
        /\ EntriesOf(req[p].user) # {}
        /\ CompletedEntriesOf(req[p].user) = {}
        /\ reply.val.currentStreak = 0
        /\ reply.val.longestStreak = 0

\* the calendar day of a date
DayOf(date) == date \div DayTicks

SatisfiedDays(u) == {DayOf(taskProgress[e].date) : e \in CompletedEntriesOf(u)}

RECURSIVE RunEndingOn(_, _)
RunEndingOn(day, days) ==
    IF day \notin days THEN 0 ELSE 1 + RunEndingOn(day - 1, days)

LongestRun(days) ==
    IF days = {} THEN 0
    ELSE LET best == CHOOSE d \in days : \A x \in days : RunEndingOn(x, days) <= RunEndingOn(d, days)
         IN RunEndingOn(best, days)

\* C16: the longestStreak that the statistics report is the length of the
\* longest run of consecutive calendar days that each have a completed entry
\* of the user, a day with several completed entries counting once.
LongestStreakIsLongestRun ==
    \A p \in Procs :
        StatsRead(p) => reply.val.longestStreak = LongestRun(SatisfiedDays(req[p].user))

\* C17: in the sequence that getUserActivity returns each item's date is at
\* least the date of the item after it.
ActivityNewestFirst ==
    \A p \in Procs :
        ActivityRead(p) =>
            \A i \in DOMAIN reply.val :
                i < Len(reply.val) => reply.val[i].date >= reply.val[i + 1].date

\* a feed holding a badge, an entry and a creation, whose newest item was pushed
\* after its oldest one: the sort has moved items
FeedReordered ==
    \E p \in Procs :
        /\ ActivityRead(p)
        /\ \E i \in DOMAIN reply.val : reply.val[i].item.type = "badge"
        /\ \E i \in DOMAIN reply.val : reply.val[i].item.taskId # 0
        /\ reply.val[Len(reply.val)].item.type = "created"
        /\ reply.val[1].date > reply.val[Len(reply.val)].date
        /\ reply.val[1].id > reply.val[Len(reply.val)].id

\* the items of the held feed that satisfy Test
FeedItems(Test(_)) == {i \in DOMAIN reply.val : Test(reply.val[i].item)}

ChallengesOf(u) == {c \in DOMAIN challenges : challenges[c].userId = u}

BadgesOf(u) == {b \in DOMAIN badges : badges[b].userId = u}

\* C18: the feed of user u has one 'created' item per challenge of u, one
\* challenge-level 'completed' item dated at endDate per completed challenge of
\* u and none for an open one, as many items of a task as the task has entries,
\* one 'badge' item per badge of u, and nothing else.
ActivityComposition ==
    \A p \in Procs :
        ActivityRead(p) =>
            LET u == req[p].user IN
            /\ \A c \in ChallengesOf(u) :
                  /\ Cardinality(FeedItems(LAMBDA x : x.type = "created" /\ x.challengeId = c)) = 1
                  /\ Cardinality(FeedItems(LAMBDA x :
                        /\ x.type = "completed" /\ x.taskId = 0
                        /\ x.challengeId = c /\ x.date = challenges[c].endDate))
                     = IF challenges[c].isCompleted THEN 1 ELSE 0
            /\ \A t \in TasksOf(u) :
                  Cardinality(FeedItems(LAMBDA x : x.taskId = t)) = Cardinality(EntriesOn(t))
            /\ \A b \in BadgesOf(u) :
                  Cardinality(FeedItems(LAMBDA x : x.type = "badge" /\ x.badgeId = b)) = 1
            /\ Len(reply.val) =
                  Cardinality(ChallengesOf(u))
                  + Cardinality({c \in ChallengesOf(u) : challenges[c].isCompleted})
                  + Cardinality(EntriesOf(u))
                  + Cardinality(BadgesOf(u))

\* the feed of a user with a completed challenge, an entry and a badge
FeedOfAllKinds ==
    \E p \in Procs :
        /\ ActivityRead(p)
        /\ \E c \in ChallengesOf(req[p].user) : challenges[c].isCompleted
        /\ EntriesOf(req[p].user) # {}
        /\ BadgesOf(req[p].user) # {}
        /\ Len(reply.val) >= 4

\* C19: the feed item of a progress entry has type 'completed' when the
\* entry's status is completed and type 'missed' for any other status, and
\* carries the status itself.
ActivityTypeByStatus ==
    \A p \in Procs :
        ActivityRead(p) =>
            \A i \in DOMAIN reply.val :
                LET x == reply.val[i].item IN
                x.taskId # 0 =>
                    /\ x.type = IF x.status = "completed" THEN "completed" ELSE "missed"
                    /\ \E e \in EntriesOn(x.taskId) :
                          taskProgress[e].status = x.status /\ taskProgress[e].date = x.date

\* C20: every challenge has endDate = startDate + duration days; a challenge is
\* created open, and no step changes the startDate, duration or endDate of a
\* challenge.
EndsAfterDuration ==
    \A c \in DOMAIN challenges :
        challenges[c].endDate = challenges[c].startDate + challenges[c].duration * DayTicks

DatesKept ==
    /\ \A c \in DOMAIN challenges :
          /\ c \in DOMAIN challenges'
          /\ challenges'[c].startDate = challenges[c].startDate
          /\ challenges'[c].duration = challenges[c].duration
          /\ challenges'[c].endDate = challenges[c].endDate
    /\ \A c \in DOMAIN challenges' \ DOMAIN challenges :
          ~challenges'[c].isCompleted /\ challenges'[c].startDate = now

\* C20: a challenge is created open with endDate = startDate + duration days,
\* and its startDate, duration and endDate stay as created in every later state.
ChallengeDatesFixed == []EndsAfterDuration /\ [][DatesKept]_vars

\* a challenge created earlier has been completed and still has its dates
CompletedWithDatesOfCreation ==
    \E c \in DOMAIN challenges :
        /\ challenges[c].isCompleted
        /\ challenges[c].startDate < now
        /\ challenges[c].startDate = challenges[c].createdAt
        /\ challenges[c].endDate = challenges[c].startDate + challenges[c].duration * DayTicks

\* a create-challenge request has just been answered
CreateAnswered(p) == pc[p] = "idle" /\ pc'[p] = "done" /\ req'[p].kind = "postChallenge"

NoChallengeUnderOneDay == \A c \in DOMAIN challenges : challenges[c].duration >= 1

CreatedWithTasks ==
    \A p \in Procs :
        (CreateAnswered(p) /\ resp'[p] = 201) =>
            \E t \in DOMAIN tasks' : tasks'[t].challengeId = Len(challenges')

\* C21: a create-challenge request with a duration under one day or with no
\* task is answered with a validation error and stores no challenge: no stored
\* challenge has a duration under 1, and a request answered 201 has stored at
\* least one task of its challenge.
CreateValidation == []NoChallengeUnderOneDay /\ [][CreatedWithTasks]_vars

BadgesKept == \A i \in DOMAIN badges : i \in DOMAIN badges' /\ badges'[i] = badges[i]

\* C22: no step deletes a badge or changes a field of one: every badge row is
\* in the next state as it is, so its earnedAt stays the time of its first
\* award also when a later badge check asks for the same badge.
BadgesAppendOnly == [][BadgesKept]_vars

\* a badge check of day 23 has returned having found the "Challenge Completed"
\* badge of day 1, which still carries the time of day 1, and having inserted
\* other badges
FirstAwardTimeKept ==
    \E p \in Procs :
        /\ Finished(p)
        /\ req[p].kind = "route"
        /\ req[p].ins >= 1
        /\ BadgeCount(req[p].user, "Challenge Completed", req[p].cid) = 1
        /\ \E i \in DOMAIN badges :
              /\ badges[i].name = "Challenge Completed"
              /\ badges[i].challengeId = req[p].cid
              /\ badges[i].earnedAt < now

\* C23: in every state, also between the store calls of requests that run
\* together, a challenge that has a "Challenge Completed" badge is completed.
CompletionBadgeImpliesCompleted ==
    \A i \in DOMAIN badges :
        badges[i].name = "Challenge Completed" =>
            /\ badges[i].challengeId \in DOMAIN challenges
            /\ challenges[badges[i].challengeId].isCompleted

\* one request has inserted the completion badge while the other, which found
\* the challenge due as well, is still at its markChallengeCompleted
BadgedWhileOtherMarks ==
    \E p, q \in Procs :
        /\ p # q
        /\ pc[p] = "mark"
        /\ req[q].ins >= 1
        /\ HasBadge(req[q].user, "Challenge Completed", req[q].cid)
        /\ req[p].cid = req[q].cid

\* C24: in every state a completed challenge has reached its last day:
\* floor((now - startDate) / 1 day) + 1 >= duration; no progress log completes
\* a challenge earlier.
NoEarlyCompletion ==
    \A c \in DOMAIN challenges : challenges[c].isCompleted => Due(c)

\* an 8-day challenge is completed on day 23 with a progress entry of day 23,
\* after a progress entry of day 1 that left it open
CompletedByLateLogOnly ==
    \E c \in DOMAIN challenges :
        /\ challenges[c].isCompleted
        /\ challenges[c].duration = 8
        /\ \E e, f \in DOMAIN taskProgress :
              /\ tasks[taskProgress[e].taskId].challengeId = c
              /\ tasks[taskProgress[f].taskId].challengeId = c
              /\ taskProgress[e].date = challenges[c].startDate
              /\ taskProgress[f].date = now
              /\ DaysSince(c) = 22

\* C25: in every state, also under interleaved progress-log requests, a user
\* who has the "30-Day Milestone" badge of a challenge has its "21-Day Streak"
\* badge, and a user who has the "21-Day Streak" badge has its "7-Day Streak"
\* badge.
ThresholdBadgeChain ==
    \A i \in DOMAIN badges :
        LET u == badges[i].userId
            c == badges[i].challengeId IN
        /\ badges[i].name = "30-Day Milestone" => HasBadge(u, "21-Day Streak", c)
        /\ badges[i].name = "21-Day Streak" => HasBadge(u, "7-Day Streak", c)

\* two requests have raced to the "7-Day Streak" badge, both inserting it, and
\* one of them has gone on to the "30-Day Milestone" badge
MilestoneAfterRace ==
    \E c \in DOMAIN challenges :
        /\ BadgeCount(challenges[c].userId, "7-Day Streak", c) = 2
        /\ HasBadge(challenges[c].userId, "30-Day Milestone", c)
        /\ \E p \in Procs : InCall(p) /\ req[p].cid = c

\* when each progress-log request on challenge c was made, in order
LogTimes(c) ==
    LET mine == SelectSeq(taskProgress, LAMBDA e : tasks[e.taskId].challengeId = c)
    IN [i \in DOMAIN mine |-> mine[i].date]

\* what was logged on challenge c, in order
LogContents(c) ==
    LET mine == SelectSeq(taskProgress, LAMBDA e : tasks[e.taskId].challengeId = c)
    IN [i \in DOMAIN mine |-> <<mine[i].status, mine[i].hoursSpent>>]

\* the badges of challenge c: which, and when earned
BadgeStamps(c) ==
    {<<badges[i].name, badges[i].earnedAt>> : i \in {j \in DOMAIN badges : badges[j].challengeId = c}}

Quiet == \A p \in Procs : pc[p] \in {"idle", "done"}

\* C26: two challenges created at the same time with the same duration that
\* received their progress-log requests at the same times have, when no
\* request is running, the same isCompleted and the same badges earned at the
\* same times, whatever status and hours the requests logged.
LoggedContentIrrelevant ==
    \A c, d \in DOMAIN challenges :
        (/\ Quiet
         /\ challenges[c].startDate = challenges[d].startDate
         /\ challenges[c].duration = challenges[d].duration
         /\ LogTimes(c) = LogTimes(d))
            => /\ challenges[c].isCompleted = challenges[d].isCompleted
               /\ BadgeStamps(c) = BadgeStamps(d)

\* one challenge was logged on day 23 as completed with hours, the other on
\* day 23 as no-action without hours; both are completed with the same badges
SameOutcomeDifferentLogs ==
    \E c, d \in DOMAIN challenges :
        /\ Quiet
        /\ LogTimes(c) = <<45>>
        /\ LogTimes(d) = <<45>>
        /\ LogContents(c) = <<<<"completed", 150>>>>
        /\ LogContents(d) = <<<<"no-action", Null>>>>
        /\ challenges[c].isCompleted
        /\ challenges[d].isCompleted
        /\ BadgeStamps(c) # {}

\* C27: the statistics that getUserStats returns, from the database storage or
\* from the in-memory storage, have 0 <= completedTasks <= totalTasks.
CompletedTasksWithinTotal ==
    reply.op \in {"getStats", "getStatsMem"} =>
        /\ 0 <= reply.val.completedTasks
        /\ reply.val.completedTasks <= reply.val.totalTasks

ErrorStoresNothing ==
    \A p \in Procs :
        (CreateAnswered(p) /\ resp'[p] >= 400) => UNCHANGED <<challenges, tasks>>

CreatedStoresAll ==
    \A p \in Procs :
        (CreateAnswered(p) /\ resp'[p] = 201) =>
            /\ Len(challenges') = Len(challenges) + 1
            /\ SubSeq(tasks', 1, Len(tasks)) = tasks
            /\ \A t \in DOMAIN tasks' \ DOMAIN tasks :
                  tasks'[t].challengeId = Len(challenges')

\* C28: a create-challenge request answered with an error (400, 500) leaves no
\* challenge row and no task row of its own in the store; a request answered
\* 201 has stored its challenge and, for that challenge only, its tasks.
CreateAllOrNothing == [][ErrorStoresNothing /\ CreatedStoresAll]_vars

\* a progress-log request has just been taken up by the route
LogTaken(p) == pc[p] = "idle" /\ req'[p].kind = "route"

\* the task of the entry that the request of p has stored
LoggedTask(p) == taskProgress'[req'[p].prog].taskId

OnlyOwnerLogs ==
    \A p \in Procs :
        LogTaken(p) =>
            IF taskProgress' # taskProgress \/ pc'[p] = "check"
              THEN /\ pc'[p] = "check"
                   /\ Len(taskProgress') = Len(taskProgress) + 1
                   /\ LoggedTask(p) \in DOMAIN tasks
                   /\ Owner(LoggedTask(p)) = req'[p].user
                   /\ req'[p].cid = tasks[LoggedTask(p)].challengeId
              ELSE /\ UNCHANGED store
                   /\ pc'[p] = "done"
                   /\ resp'[p] \in {404, 403, 400, 500}

BadgeOwnerIsChallengeOwner ==
    \A i \in DOMAIN badges :
        /\ badges[i].challengeId \in DOMAIN challenges
        /\ badges[i].userId = challenges[badges[i].challengeId].userId

\* C29: a progress-log request stores its entry and goes on to the badge check
\* only for a task that exists in a challenge of the requesting user; any other
\* request changes no row and is answered at once; every badge of a challenge
\* belongs to the owner of the challenge.
OwnershipOfProgressLog == []BadgeOwnerIsChallengeOwner /\ [][OnlyOwnerLogs]_vars

\* user 2's request on a task of user 1 has been answered 403 while user 1
\* holds badges of that challenge and user 2 none
ForeignLogRefused ==
    \E p \in Procs, c \in DOMAIN challenges :
        /\ pc[p] = "done"
        /\ req[p].kind = "route"
        /\ resp[p] = 403
        /\ req[p].user # challenges[c].userId
        /\ \E i \in DOMAIN badges : badges[i].challengeId = c
        /\ getUserBadges(req[p].user) = {}
        /\ Len(challenges) = 1

\* a share-note request has just been answered
ShareAnswered(p) == pc[p] = "idle" /\ pc'[p] = "done" /\ req'[p].kind = "shareNote"

AcceptedBetween(u, w) ==
    \E i \in DOMAIN userConnections :
        /\ userConnections[i].status = "accepted"
        /\ \/ userConnections[i].userId = u /\ userConnections[i].connectedUserId = w
           \/ userConnections[i].userId = w /\ userConnections[i].connectedUserId = u

OwnsEntry(u, e) == e \in DOMAIN taskProgress /\ Owner(taskProgress[e].taskId) = u

NotesOfOwnEntries ==
    \A n \in DOMAIN sharedNotes :
        OwnsEntry(sharedNotes[n].sharedByUserId, sharedNotes[n].taskProgressId)

ShareGated ==
    /\ sharedNotes' # sharedNotes => \E p \in Procs : ShareAnswered(p)
    /\ \A p \in Procs :
          ShareAnswered(p) =>
              LET u == req'[p].user
                  e == req'[p].prog
                  w == req'[p].peer IN
              IF sharedNotes' # sharedNotes
                THEN /\ sharedNotes' = Append(sharedNotes,
                            [id |-> Len(sharedNotes) + 1, taskProgressId |-> e,
                             sharedByUserId |-> u, sharedWithUserId |-> w])
                     /\ OwnsEntry(u, e)
                     /\ AcceptedBetween(u, w)
                     /\ resp'[p] = 201
                ELSE (e >= 1 /\ ~(OwnsEntry(u, e) /\ AcceptedBetween(u, w)))
                        => resp'[p] \in {403, 404, 500}

OnlyRecipientDecides ==
    /\ \A i \in DOMAIN userConnections :
          /\ i \in DOMAIN userConnections'
          /\ userConnections'[i].userId = userConnections[i].userId
          /\ userConnections'[i].connectedUserId = userConnections[i].connectedUserId
          /\ userConnections'[i].status # userConnections[i].status =>
                /\ userConnections'[i].status \in {"accepted", "rejected"}
                /\ \E p \in Procs :
                      /\ pc[p] = "idle"
                      /\ req'[p].kind = "patchConnection"
                      /\ req'[p].conn = i
                      /\ req'[p].user = userConnections[i].connectedUserId
    /\ \A i \in DOMAIN userConnections' \ DOMAIN userConnections :
          userConnections'[i].status = "pending"

\* C30: a shared note is inserted only by a share request of the owner of the
\* entry's challenge while a connection between sharer and recipient, in either
\* direction, is accepted; a share request without that is answered 403 or 404
\* (500 if the store rejects) and inserts nothing; a connection starts pending
\* and only a request of its recipient changes its status, to accepted or
\* rejected.
NoteSharingGated == []NotesOfOwnEntries /\ [][ShareGated /\ OnlyRecipientDecides]_vars

\* the recipient of a connection has accepted it and shared a note of their
\* own with the user who asked for it
SharedBackOverAccepted ==
    \E n \in DOMAIN sharedNotes, i \in DOMAIN userConnections :
        /\ userConnections[i].status = "accepted"
        /\ userConnections[i].connectedUserId = sharedNotes[n].sharedByUserId
        /\ userConnections[i].userId = sharedNotes[n].sharedWithUserId
        /\ userConnections[i].userId # userConnections[i].connectedUserId

====
